---- MODULE Spec2Model ----
(***************************************************************************)
(* A model of the MiniKit bridge (class MiniKit): capability negotiation   *)
(* in install/commandsValid, the single-slot event bus (subscribe,         *)
(* unsubscribe, trigger) with its per-topic response wrappers, the command *)
(* entries and the awaitCommand correlator.                                *)
(*                                                                         *)
(* JavaScript runs one job at a time, so every action below is one         *)
(* synchronous job: an API call up to its return, or the continuation of   *)
(* an awaited promise (profile lookup, proof compression).                 *)
(***************************************************************************)
EXTENDS Integers, Sequences, FiniteSets, TLC

VARIABLES
    worldApp,            \* window.WorldApp: NoWorldApp or the host context object
    windowMiniKit,       \* Boolean(window.MiniKit)
    appId,               \* MiniKit.appId
    user,                \* MiniKit.user
    isCommandAvailable,  \* MiniKit.isCommandAvailable
    listeners,           \* MiniKit.listeners
    replaced,            \* history: what the latest subscribe on a topic overwrote
    triggered,           \* history: the events the host delivered through trigger
    called,              \* handler invocations of the last job
    inflight,            \* awaited promises whose continuation has not run yet
    promises,            \* the promises returned by commandsAsync.*
    initCount,           \* history: number of init messages handed to the transport
    wasOutside,          \* history: an install call answered OutsideOfWorldApp
    sent,                \* envelopes handed to the transport by the last call
    console,             \* console.error messages of the last job
    ret                  \* outcome of the last API call

vars == <<worldApp, windowMiniKit, appId, user, isCommandAvailable, listeners,
          replaced, triggered, called, inflight, promises, initCount, wasOutside,
          sent, console, ret>>

hostVars == <<worldApp, windowMiniKit, appId, isCommandAvailable, initCount,
              wasOutside>>
busVars  == <<listeners, replaced, triggered, inflight, promises>>

----------------------------------------------------------------------------
(* Bounds of the model. *)

MaxEvents  == 2   \* trigger calls in one behaviour
MaxCalls   == 2   \* commandsAsync calls in one behaviour
MaxDefects == 1   \* commands the host descriptor does not list at the required version

----------------------------------------------------------------------------
(* The command table and the response topics. *)

MINIKIT_VERSION == 1

\* Object.entries(miniKitCommandVersion) enumerates in declaration order.
CommandTable ==
    << "verify", "pay", "wallet-auth", "send-transaction", "sign-message",
       "sign-typed-data", "share-contacts", "request-permission",
       "get-permissions", "send-haptic-feedback", "share-files" >>

Command == { CommandTable[i] : i \in 1..Len(CommandTable) }

miniKitCommandVersion == [c \in Command |-> 1]

ResponseEvent ==
    { "MiniAppVerifyAction", "MiniAppPayment", "MiniAppWalletAuth",
      "MiniAppSendTransaction", "MiniAppSignMessage", "MiniAppSignTypedData",
      "MiniAppShareContacts", "MiniAppRequestPermission",
      "MiniAppGetPermissions", "MiniAppSendHapticFeedback", "MiniAppShareFiles" }

\* The topic each commandsAsync entry awaits.
EventOf(c) ==
    CASE c = "verify"               -> "MiniAppVerifyAction"
      [] c = "pay"                  -> "MiniAppPayment"
      [] c = "wallet-auth"          -> "MiniAppWalletAuth"
      [] c = "send-transaction"     -> "MiniAppSendTransaction"
      [] c = "sign-message"         -> "MiniAppSignMessage"
      [] c = "sign-typed-data"      -> "MiniAppSignTypedData"
      [] c = "share-contacts"       -> "MiniAppShareContacts"
      [] c = "request-permission"   -> "MiniAppRequestPermission"
      [] c = "get-permissions"      -> "MiniAppGetPermissions"
      [] c = "send-haptic-feedback" -> "MiniAppSendHapticFeedback"
      [] c = "share-files"          -> "MiniAppShareFiles"

----------------------------------------------------------------------------
(* Handlers.  A listener slot holds no handler (after delete), the no-op   *)
(* the table is initialised with, a handler a caller passed to subscribe,  *)
(* or the handleAndUnsubscribe closure of an awaitCommand call.            *)

NoHandler      == [kind |-> "none",    id |-> 0]
DefaultHandler == [kind |-> "default", id |-> 0]
UserHandler(i) == [kind |-> "user",    id |-> i]
CorrHandler(k) == [kind |-> "corr",    id |-> k]

UserHandlers == { UserHandler(1), UserHandler(2) }

----------------------------------------------------------------------------
(* The host context object. *)

NoWorldApp == [present |-> FALSE, supported_commands |-> << >>,
               device_os |-> "-", world_app_version |-> 0,
               is_optional_analytics |-> FALSE]

Undefined == "undefined"

\* What a host may list for one command: nothing, only another version,
\* the required version, or both.
VersionSets == [absent |-> {}, other |-> {2}, required |-> {1}, both |-> {1, 2}]
Listing == {"absent", "other", "required", "both"}

RECURSIVE DescriptorFrom(_, _)
DescriptorFrom(st, i) ==
    IF i > Len(CommandTable) THEN << >>
    ELSE LET name == CommandTable[i]
             rest == DescriptorFrom(st, i + 1)
         IN IF st[name] = "absent" THEN rest
            ELSE << [name |-> name, supported_versions |-> VersionSets[st[name]]] >>
                 \o rest

\* The descriptors the model hands to install: every command listed at the
\* required version except for at most MaxDefects of them.
AllRequired == [c \in Command |-> "required"]

RECURSIVE ListingsWith(_)
ListingsWith(n) ==
    IF n = 0 THEN { AllRequired }
    ELSE LET prev == ListingsWith(n - 1)
         IN prev \cup { [st EXCEPT ![c] = l] :
                           st \in prev, c \in Command, l \in Listing }

Listings == ListingsWith(MaxDefects)

HostEnvs ==
    { [device_os |-> "ios",     world_app_version |-> 1, is_optional_analytics |-> TRUE],
      [device_os |-> "android", world_app_version |-> 2, is_optional_analytics |-> FALSE] }

WorldApps ==
    { [present |-> TRUE, supported_commands |-> DescriptorFrom(st, 1),
       device_os |-> e.device_os, world_app_version |-> e.world_app_version,
       is_optional_analytics |-> e.is_optional_analytics] :
        st \in Listings, e \in HostEnvs }

----------------------------------------------------------------------------
(* Capability negotiation. *)

\* Array.prototype.find: the index of the first entry with that name, 0 if none.
Find(supported_commands, name) ==
    LET hits == { i \in 1..Len(supported_commands) :
                    supported_commands[i].name = name }
    IN IF hits = {} THEN 0
       ELSE CHOOSE i \in hits : \A j \in hits : i <= j

\* (mutations of the callback: it marks a command the host does not list;
\* it accepts any version)
CheckCommand_MarksMissing(supported_commands, avail, i) ==
    LET minikitCommandName == CommandTable[i]
        at == Find(supported_commands, minikitCommandName)
    IN [avail |-> [avail EXCEPT ![minikitCommandName] = TRUE],
        ok |-> IF at = 0 THEN FALSE
               ELSE miniKitCommandVersion[minikitCommandName]
                       \in supported_commands[at].supported_versions,
        missing |-> at = 0]

CheckCommand_AnyVersion(supported_commands, avail, i) ==
    LET minikitCommandName == CommandTable[i]
        at == Find(supported_commands, minikitCommandName)
    IN IF at = 0
       THEN [avail |-> avail, ok |-> FALSE, missing |-> TRUE]
       ELSE [avail |-> [avail EXCEPT ![minikitCommandName] = TRUE],
             ok |-> TRUE, missing |-> FALSE]

\* The callback commandsValid hands to every(), for the i-th command.
\* It marks the command available when the host lists it and answers
\* whether the host lists it at the required version.
CheckCommand(supported_commands, avail, i) ==
    LET minikitCommandName == CommandTable[i]
        version == miniKitCommandVersion[minikitCommandName]
        at == Find(supported_commands, minikitCommandName)
    IN IF at = 0
       THEN [avail |-> avail, ok |-> FALSE, missing |-> TRUE]
       ELSE [avail |-> [avail EXCEPT ![minikitCommandName] = TRUE],
             ok |-> version \in supported_commands[at].supported_versions,
             missing |-> FALSE]

\* Array.prototype.every: stops at the first callback that answers false.
RECURSIVE EveryFrom(_, _, _, _)
EveryFrom(supported_commands, avail, logged, i) ==
    IF i > Len(CommandTable)
    THEN [avail |-> avail, valid |-> TRUE, logged |-> logged]
    ELSE LET r == CheckCommand(supported_commands, avail, i)
             l == IF r.missing THEN logged \cup {"notSupported"} ELSE logged
         IN IF r.ok
            THEN EveryFrom(supported_commands, r.avail, l, i + 1)
            ELSE [avail |-> r.avail, valid |-> FALSE, logged |-> l]

\* (mutation of commandsValid: every command of the table is looked at)
commandsValid_WalksAll(supported_commands, avail) ==
    LET r(i) == CheckCommand(supported_commands, avail, i)
    IN [avail  |-> [c \in Command |->
                      \/ avail[c]
                      \/ Find(supported_commands, c) # 0],
        valid  |-> \A i \in 1..Len(CommandTable) : r(i).ok,
        logged |-> IF \E i \in 1..Len(CommandTable) : r(i).missing
                   THEN {"notSupported"} ELSE {}]

commandsValid(supported_commands, avail) ==
    EveryFrom(supported_commands, avail, {}, 1)

----------------------------------------------------------------------------
(* install *)

InstallResult(code) == [kind |-> "install", value |-> code]
Void == [kind |-> "void", value |-> "-"]

InitEnvelope == [command |-> "init", version |-> MINIKIT_VERSION, payload |-> "version"]

\* The "Set user properties" assignments.
SetUserProperties_SkipsDevice(u, w) ==
    [u EXCEPT !.optedIntoOptionalAnalytics = w.is_optional_analytics,
              !.worldAppVersion = w.world_app_version]

SetUserProperties(u, w) ==
    [u EXCEPT !.optedIntoOptionalAnalytics = w.is_optional_analytics,
              !.deviceOS = w.device_os,
              !.worldAppVersion = w.world_app_version]

\* install's first test (the model's page always has a window).
alreadyInstalled_Never(registered) == FALSE

alreadyInstalled_AfterOutside(registered) == registered /\ wasOutside

alreadyInstalled_WhenNegotiated(registered) == registered /\ initCount > 0

alreadyInstalled(registered) == registered

\* install's test for the host context object.
outsideOfWorldApp_Never(w) == FALSE

outsideOfWorldApp(w) == ~w.present

\* What install answers when sendInit throws inside its try block.
sendInitThrew_Uncaught == [kind |-> "threw", value |-> "Error"]

sendInitThrew == InstallResult("Unknown")

\* install(appId); sendThrows says whether the transport throws on init.
install(id, sendThrows) ==
    IF alreadyInstalled(windowMiniKit)
    THEN /\ ret' = InstallResult("AlreadyInstalled")
         /\ sent' = << >>
         /\ console' = {}
         /\ UNCHANGED <<worldApp, windowMiniKit, appId, user,
                        isCommandAvailable, initCount, wasOutside>>
    ELSE /\ appId' = IF id = Undefined THEN appId ELSE id
         /\ IF outsideOfWorldApp(worldApp)
            THEN /\ ret' = InstallResult("OutsideOfWorldApp")
                 /\ sent' = << >>
                 /\ console' = {}
                 /\ wasOutside' = TRUE
                 /\ UNCHANGED <<worldApp, windowMiniKit, user,
                                isCommandAvailable, initCount>>
            ELSE /\ windowMiniKit' = TRUE
                 /\ UNCHANGED <<worldApp, wasOutside>>
                 /\ IF sendThrows
                    THEN /\ ret' = sendInitThrew
                         /\ sent' = << >>
                         /\ console' = {"installUnknown"}
                         /\ user' = SetUserProperties(user, worldApp)
                         /\ UNCHANGED <<isCommandAvailable, initCount>>
                    ELSE LET r == commandsValid(worldApp.supported_commands,
                                                isCommandAvailable)
                             u == SetUserProperties(user, worldApp)
                         IN /\ sent' = << InitEnvelope >>
                            /\ initCount' = initCount + 1
                            /\ isCommandAvailable' = r.avail
                            /\ console' = r.logged
                            /\ IF r.valid
                               THEN /\ user' = SetUserProperties(u, worldApp)
                                    /\ ret' = InstallResult("success")
                               ELSE /\ user' = u
                                    /\ ret' = InstallResult("AppOutOfDate")

Install ==
    /\ \E id \in {Undefined, "app_1"}, sendThrows \in BOOLEAN :
         install(id, sendThrows)
    /\ UNCHANGED busVars /\ called' = << >>

\* isInstalled(debug): Boolean(window.MiniKit), with its two log lines.
isInstalled_ChecksWorldApp(debug) ==
    [value |-> worldApp.present,
     console |-> (IF debug THEN {"alive"} ELSE {})
                 \cup (IF worldApp.present THEN {} ELSE {"notInstalled"})]

isInstalled(debug) ==
    [value |-> windowMiniKit,
     console |-> (IF debug THEN {"alive"} ELSE {})
                 \cup (IF windowMiniKit THEN {} ELSE {"notInstalled"})]

IsInstalled ==
    \E debug \in BOOLEAN :
       LET r == isInstalled(debug)
       IN /\ ret' = [kind |-> "isInstalled", value |-> r.value]
          /\ console' = r.console
          /\ sent' = << >>
          /\ called' = << >>
          /\ UNCHANGED <<hostVars, user, busVars>>

\* The host environment: the page is opened outside or inside World App
\* (Init), and a host that was absent injects window.WorldApp later.
\* window.WorldApp is read by install only, and only before the bridge
\* registered itself, so later changes of it cannot be observed.
HostSetsWorldApp ==
    /\ ~windowMiniKit
    /\ ~worldApp.present
    /\ \E w \in WorldApps : worldApp' = w
    /\ sent' = << >>
    /\ console' = {}
    /\ ret' = Void
    /\ UNCHANGED <<windowMiniKit, appId, user, isCommandAvailable, initCount,
                   wasOutside>>
    /\ UNCHANGED busVars /\ called' = << >>

----------------------------------------------------------------------------
(* The command entries (MiniKit.commands).  An entry is a function of the  *)
(* availability table and its input; it answers what it returns, what it   *)
(* hands to the transport and what it logs.                                *)

Null == "null"
Inputs == {"in_ok", "in_bad"}

\* The availability flag the entry's guard reads.
GuardFlag(c) ==
    IF c = "share-contacts" THEN "sign-typed-data" ELSE c

\* validatePaymentPayload / validateWalletAuthCommandInput; the other
\* entries send whatever they are given.
Validates_Always(c, input) == TRUE

Validates(c, input) ==
    IF c \in {"pay", "wallet-auth"} THEN input = "in_ok" ELSE TRUE

\* The payload object put in the envelope: built by the entry (verify, pay,
\* walletAuth, sendTransaction), {} (getPermissions) or the input itself.
EnvelopePayload(c, input) ==
    CASE c \in {"verify", "pay", "wallet-auth", "send-transaction"}
              -> "built_from_" \o input
      [] c = "get-permissions" -> "empty"
      [] OTHER -> input

\* The object the entry returns after sending.
Returned(c, input) ==
    IF c = "get-permissions" THEN "status_sent" ELSE EnvelopePayload(c, input)

Envelope(c, input) ==
    [command |-> c, version |-> miniKitCommandVersion[c],
     payload |-> EnvelopePayload(c, input)]

\* (mutation of the entries: the availability test is left out)
commandEntry_Unguarded(avail, c, input) ==
    IF ~Validates(c, input)
    THEN [value |-> Null, sent |-> << >>,
          console |-> IF c = "wallet-auth" THEN {"invalidInput"} ELSE {}]
    ELSE [value |-> Returned(c, input), sent |-> << Envelope(c, input) >>,
          console |-> {}]

\* A command entry: what it returns, sends and logs.
commandEntry(avail, c, input) ==
    IF ~avail[GuardFlag(c)]
    THEN [value |-> Null, sent |-> << >>, console |-> {"unavailable"}]
    ELSE IF ~Validates(c, input)
    THEN [value |-> Null, sent |-> << >>,
          console |-> IF c = "wallet-auth" THEN {"invalidInput"} ELSE {}]
    ELSE [value |-> Returned(c, input), sent |-> << Envelope(c, input) >>,
          console |-> {}]

RunCommand(c, input) ==
    LET r == commandEntry(isCommandAvailable, c, input)
    IN /\ ret' = [kind |-> "command", value |-> r.value,
                   command |-> c, input |-> input]
       /\ sent' = r.sent
       /\ console' = r.console
       /\ UNCHANGED <<hostVars, user>>
       /\ UNCHANGED <<listeners, replaced, triggered, inflight, promises>>
       /\ called' = << >>

Verify             == \E input \in Inputs : RunCommand("verify", input)
Pay                == \E input \in Inputs : RunCommand("pay", input)
WalletAuth         == \E input \in Inputs : RunCommand("wallet-auth", input)
SendTransaction    == \E input \in Inputs : RunCommand("send-transaction", input)
SignMessage        == \E input \in Inputs : RunCommand("sign-message", input)
SignTypedData      == \E input \in Inputs : RunCommand("sign-typed-data", input)
ShareContacts      == \E input \in Inputs : RunCommand("share-contacts", input)
RequestPermission  == \E input \in Inputs : RunCommand("request-permission", input)
GetPermissions     == RunCommand("get-permissions", "in_ok")
SendHapticFeedback == \E input \in Inputs : RunCommand("send-haptic-feedback", input)
ShareFiles         == \E input \in Inputs : RunCommand("share-files", input)

----------------------------------------------------------------------------
(* The event bus.  Its operations are written as functions of a record B   *)
(* of the fields they read and write; the actions below apply them.        *)

Payloads(event) ==
    CASE event = "MiniAppVerifyAction" ->
           { [status |-> "success", verification_level |-> "orb",
              address |-> "-", proof |-> 0],
             [status |-> "success", verification_level |-> "device",
              address |-> "-", proof |-> 0],
             [status |-> "error", verification_level |-> "-",
              address |-> "-", proof |-> 0] }
      [] event = "MiniAppWalletAuth" ->
           { [status |-> "success", verification_level |-> "-",
              address |-> "A", proof |-> 0],
             [status |-> "success", verification_level |-> "-",
              address |-> "B", proof |-> 0],
             [status |-> "error", verification_level |-> "-",
              address |-> "-", proof |-> 0] }
      [] OTHER ->
           { [status |-> "success", verification_level |-> "-",
              address |-> "-", proof |-> 0],
             [status |-> "error", verification_level |-> "-",
              address |-> "-", proof |-> 0] }

\* The topics the callers and the host of the model use: the two topics
\* subscribe wraps and one of the nine it stores as they are.
EventInputs == {"MiniAppVerifyAction", "MiniAppWalletAuth", "MiniAppPayment"}

\* Operations on different topics read and write different slots of the
\* listener table.  A behaviour of the model works one topic: the first
\* subscribe, unsubscribe, trigger or commandsAsync call picks it.
Touched ==
    { e \in ResponseEvent : listeners[e] # [handler |-> DefaultHandler, wrapper |-> "none"] }
    \cup { triggered[i].topic : i \in 1..Len(triggered) }

ActiveEvents == IF Touched = {} THEN EventInputs ELSE Touched

\* compressAndPadProof, by the number of encodings the proof went through.
compressAndPadProof(proof) == proof + 1

\* getUserProfile, by the profile the name service holds for an address.
getUserProfile_Anonymous(address) ==
    [username |-> Undefined, profile_picture_url |-> Undefined]

getUserProfile(address) ==
    [username |-> "name_" \o address, profile_picture_url |-> "pic_" \o address]

EmptySlot   == [handler |-> NoHandler, wrapper |-> "none"]
DefaultSlot == [handler |-> DefaultHandler, wrapper |-> "none"]

Bus == [listeners |-> listeners, triggered |-> triggered, called |-> << >>,
        inflight |-> inflight, promises |-> promises, user |-> user,
        console |-> {}, threw |-> FALSE]

\* subscribe: the slot gets the handler, wrapped for the two special topics.
subscribe(B, event, handler) ==
    LET wrapper == IF event = "MiniAppWalletAuth" THEN "walletAuth"
                   ELSE IF event = "MiniAppVerifyAction" THEN "verify"
                   ELSE "none"
    IN [B EXCEPT !.listeners[event] = [handler |-> handler, wrapper |-> wrapper]]

\* unsubscribe: delete this.listeners[event]
unsubscribe(B, event) ==
    [B EXCEPT !.listeners[event] = EmptySlot]

\* The continuation of a commandsAsync entry once awaitCommand resolved.
asyncContinuation(B, k, ev) ==
    LET p == B.promises[k]
        payload == B.triggered[ev].cur
    IN IF /\ p.command = "verify"
          /\ payload.status = "success"
          /\ payload.verification_level = "orb"
       THEN [B EXCEPT !.inflight = @ \cup
                        {[kind |-> "recompress", ev |-> ev, handler |-> CorrHandler(k)]}]
       ELSE [B EXCEPT !.promises[k].outer = "resolved"]

\* (mutation of handleAndUnsubscribe: it resolves without unsubscribing)
handleAndUnsubscribe_KeepsSlot(B, k, ev) ==
    IF B.promises[k].inner # "pending"
    THEN B
    ELSE asyncContinuation(
             [B EXCEPT !.promises[k].inner = "resolved",
                       !.promises[k].finalPayload = ev],
             k, ev)

\* handleAndUnsubscribe of awaitCommand call k, invoked for event ev.
\* Resolving a promise that is already resolved does nothing.
handleAndUnsubscribe(B, k, ev) ==
    LET B1 == unsubscribe(B, B.promises[k].event)
    IN IF B1.promises[k].inner # "pending"
       THEN B1
       ELSE asyncContinuation(
                [B1 EXCEPT !.promises[k].inner = "resolved",
                           !.promises[k].finalPayload = ev],
                k, ev)

\* Calling the handler that was passed to subscribe (or left in the table);
\* calling a missing handler is a TypeError.
invoke(B, h, ev) ==
    LET B1 == [B EXCEPT !.called = Append(@, [handler |-> h, ev |-> ev,
                                              payload |-> B.triggered[ev].cur]),
                        !.triggered[ev].delivered =
                            IF h.kind \in {"user", "corr"} THEN @ + 1 ELSE @]
    IN CASE h.kind = "user"    -> B1
         [] h.kind = "corr"    -> handleAndUnsubscribe(B1, h.id, ev)
         [] h.kind = "default" -> B1
         [] OTHER              -> [B EXCEPT !.threw = TRUE]

\* The wrapper subscribe installs on MiniAppWalletAuth, up to its await.
walletAuthWrapper(B, h, ev) ==
    LET payload == B.triggered[ev].cur
    IN IF payload.status = "success"
       THEN [B EXCEPT !.user.walletAddress = payload.address,
                      !.inflight = @ \cup
                          {[kind |-> "lookup", ev |-> ev, handler |-> h]}]
       ELSE invoke(B, h, ev)

\* (mutation of the wrapper: the handler is called at once, whatever the
\* payload)
verifyWrapper_NoTransform(B, h, ev) == invoke(B, h, ev)

\* (mutation of the wrapper: every payload goes through the re-encoding)
verifyWrapper_AlwaysTransforms(B, h, ev) ==
    [B EXCEPT !.inflight = @ \cup
                  {[kind |-> "compress", ev |-> ev, handler |-> h]}]

\* The wrapper subscribe installs on MiniAppVerifyAction, up to its then().
verifyWrapper(B, h, ev) ==
    LET payload == B.triggered[ev].cur
    IN IF payload.status = "success" /\ payload.verification_level = "orb"
       THEN [B EXCEPT !.inflight = @ \cup
                          {[kind |-> "compress", ev |-> ev, handler |-> h]}]
       ELSE invoke(B, h, ev)

\* trigger's test for a missing handler.
noListener_Never(B, event) == FALSE

noListener(B, event) == B.listeners[event] = EmptySlot

\* (mutation of trigger: an event without a handler is kept and handed to
\* the next job instead of being dropped)
trigger_Buffering(B, event, ev) ==
    IF noListener(B, event)
    THEN [B EXCEPT !.console = {"noHandler"},
                   !.inflight = @ \cup
                       {[kind |-> "lookup", ev |-> ev, handler |-> UserHandler(1)]}]
    ELSE LET slot == B.listeners[event]
         IN CASE slot.wrapper = "walletAuth" -> walletAuthWrapper(B, slot.handler, ev)
              [] slot.wrapper = "verify"     -> verifyWrapper(B, slot.handler, ev)
              [] OTHER                       -> invoke(B, slot.handler, ev)

\* trigger, for the event numbered ev (already recorded in B.triggered).
trigger(B, event, ev) ==
    IF noListener(B, event)
    THEN [B EXCEPT !.console = {"noHandler"}]
    ELSE LET slot == B.listeners[event]
         IN CASE slot.wrapper = "walletAuth" -> walletAuthWrapper(B, slot.handler, ev)
              [] slot.wrapper = "verify"     -> verifyWrapper(B, slot.handler, ev)
              [] OTHER                       -> invoke(B, slot.handler, ev)

\* Writes the bus record back to the variables.
SetBus(B) ==
    /\ listeners' = B.listeners
    /\ triggered' = B.triggered
    /\ called' = B.called
    /\ inflight' = B.inflight
    /\ promises' = B.promises
    /\ user' = B.user
    /\ console' = B.console
    /\ ret' = IF B.threw THEN [kind |-> "threw", value |-> "TypeError"] ELSE Void
    /\ sent' = << >>

Subscribe ==
    \E event \in ActiveEvents, h \in UserHandlers :
       /\ listeners[event].handler # h
       /\ SetBus(subscribe(Bus, event, h))
       /\ replaced' = [replaced EXCEPT ![event] = listeners[event].handler]
       /\ UNCHANGED hostVars

Unsubscribe ==
    \E event \in ActiveEvents :
       /\ SetBus(unsubscribe(Bus, event))
       /\ UNCHANGED <<hostVars, replaced>>

Trigger ==
    \E event \in ActiveEvents :
       \E payload \in Payloads(event) :
          /\ Len(triggered) < MaxEvents
          /\ LET ev == Len(triggered) + 1
                 B == [Bus EXCEPT !.triggered =
                          Append(@, [topic |-> event,
                                     found |-> listeners[event].handler.kind,
                                     delivered |-> 0,
                                     orig |-> payload, cur |-> payload])]
             IN SetBus(trigger(B, event, ev))
          /\ UNCHANGED <<hostVars, replaced>>

\* MiniKit.user = { ...MiniKit.user, ...user } with the object
\* getUserByAddress(address) resolved to.
mergeUser_KeepsWalletAddress(u, address, userProfile) ==
    [u EXCEPT !.username = userProfile.username,
              !.profilePictureUrl = userProfile.profile_picture_url]

mergeUser(u, address, userProfile) ==
    [u EXCEPT !.walletAddress = address,
              !.username = userProfile.username,
              !.profilePictureUrl = userProfile.profile_picture_url]

\* The wrapper after a rejected lookup: the catch logs, then the original
\* handler is called.
lookupFailed_Rethrows(B, t) ==
    [B EXCEPT !.console = {"lookupFailed"}, !.threw = TRUE]

lookupFailed(B, t) ==
    invoke([B EXCEPT !.console = {"lookupFailed"}], t.handler, t.ev)

\* getUserByAddress resolved: the wrapper merges the profile, then calls
\* the original handler.
LookupResolves ==
    \E t \in inflight :
       /\ t.kind = "lookup"
       /\ LET address == triggered[t.ev].cur.address
              B == [Bus EXCEPT !.inflight = @ \ {t},
                               !.user = mergeUser(@, address,
                                                  getUserProfile(address))]
          IN SetBus(invoke(B, t.handler, t.ev))
       /\ UNCHANGED <<hostVars, replaced>>

\* getUserByAddress rejected: the wrapper logs, then calls the original handler.
LookupRejects ==
    \E t \in inflight :
       /\ t.kind = "lookup"
       /\ SetBus(lookupFailed([Bus EXCEPT !.inflight = @ \ {t}], t))
       /\ UNCHANGED <<hostVars, replaced>>

\* compressAndPadProof resolved inside the verify wrapper.
CompressResolves ==
    \E t \in inflight :
       /\ t.kind = "compress"
       /\ LET B == [Bus EXCEPT !.inflight = @ \ {t},
                               !.triggered[t.ev].cur.proof = compressAndPadProof(@)]
          IN SetBus(invoke(B, t.handler, t.ev))
       /\ UNCHANGED <<hostVars, replaced>>

\* compressAndPadProof rejected inside the verify wrapper: then() has no
\* rejection handler, the original handler is not called.
CompressRejects ==
    \E t \in inflight :
       /\ t.kind = "compress"
       /\ SetBus([Bus EXCEPT !.inflight = @ \ {t}])
       /\ UNCHANGED <<hostVars, replaced>>

\* compressAndPadProof resolved inside commandsAsync.verify.
RecompressResolves ==
    \E t \in inflight :
       /\ t.kind = "recompress"
       /\ SetBus([Bus EXCEPT !.inflight = @ \ {t},
                             !.triggered[t.ev].cur.proof = compressAndPadProof(@),
                             !.promises[t.handler.id].outer = "resolved"])
       /\ UNCHANGED <<hostVars, replaced>>

\* compressAndPadProof rejected inside commandsAsync.verify: reject(error).
RecompressRejects ==
    \E t \in inflight :
       /\ t.kind = "recompress"
       /\ SetBus([Bus EXCEPT !.inflight = @ \ {t},
                             !.promises[t.handler.id].outer = "rejected"])
       /\ UNCHANGED <<hostVars, replaced>>

----------------------------------------------------------------------------
(* commandsAsync: awaitCommand subscribes its closure, then runs the entry. *)

AsyncCommands == {"verify", "wallet-auth", "pay"}

\* (mutation of awaitCommand: commandPayload is what it was at subscription)
awaitCommand_PayloadAtSubscribe(B, k, event, c, value) ==
    LET B1 == [B EXCEPT !.promises =
                 Append(@, [event |-> event, command |-> c,
                            commandPayload |-> Null, inner |-> "pending",
                            outer |-> "pending", finalPayload |-> 0,
                            since |-> Len(B.triggered)])]
    IN subscribe(B1, event, CorrHandler(k))

\* awaitCommand call k; value is what the executor returned.  The record
\* of the call keeps the number of events triggered before it subscribed.
awaitCommand(B, k, event, c, value) ==
    LET B1 == [B EXCEPT !.promises =
                 Append(@, [event |-> event, command |-> c,
                            commandPayload |-> value, inner |-> "pending",
                            outer |-> "pending", finalPayload |-> 0,
                            since |-> Len(B.triggered)])]
    IN subscribe(B1, event, CorrHandler(k))

CommandAsync ==
    \E c \in AsyncCommands, input \in Inputs :
       /\ EventOf(c) \in ActiveEvents
       /\ Len(promises) < MaxCalls
       /\ LET k == Len(promises) + 1
              r == commandEntry(isCommandAvailable, c, input)
              B == awaitCommand(Bus, k, EventOf(c), c, r.value)
          IN /\ listeners' = B.listeners
             /\ promises' = B.promises
             /\ replaced' = [replaced EXCEPT ![EventOf(c)] = listeners[EventOf(c)].handler]
             /\ sent' = r.sent
             /\ console' = r.console
             /\ ret' = [kind |-> "promise", value |-> "pending"]
             /\ called' = << >>
       /\ UNCHANGED <<hostVars, user, triggered, inflight>>

----------------------------------------------------------------------------

Init ==
    /\ worldApp \in WorldApps \cup {NoWorldApp}
    /\ windowMiniKit = FALSE
    /\ appId = Null
    /\ user = [walletAddress |-> Undefined, username |-> Undefined,
               profilePictureUrl |-> Undefined,
               optedIntoOptionalAnalytics |-> Undefined,
               deviceOS |-> Undefined, worldAppVersion |-> Undefined]
    /\ isCommandAvailable = [c \in Command |-> FALSE]
    /\ listeners = [e \in ResponseEvent |-> DefaultSlot]
    /\ replaced = [e \in ResponseEvent |-> NoHandler]
    /\ triggered = << >>
    /\ called = << >>
    /\ inflight = {}
    /\ promises = << >>
    /\ initCount = 0
    /\ wasOutside = FALSE
    /\ sent = << >>
    /\ console = {}
    /\ ret = Void

\* The host of the bus specification: a World App that lists every command
\* at the required version.  Before install no command is available, after
\* it every command is.
BusWorldApps ==
    { w \in WorldApps :
        /\ w.device_os = "ios"
        /\ w.supported_commands = DescriptorFrom(AllRequired, 1) }

InitBus == Init /\ worldApp \in BusWorldApps

\* Negotiation and the command entries, for every host of the model.
NextNegotiation ==
    \/ HostSetsWorldApp
    \/ Install
    \/ IsInstalled
    \/ Verify \/ Pay \/ WalletAuth \/ SendTransaction \/ SignMessage
    \/ SignTypedData \/ ShareContacts \/ RequestPermission \/ GetPermissions
    \/ SendHapticFeedback \/ ShareFiles

InstallInWorldApp ==
    /\ install("app_1", FALSE)
    /\ UNCHANGED busVars /\ called' = << >>

\* The event bus under handlers passed to subscribe, before and after install.
NextBus ==
    \/ InstallInWorldApp
    \/ Subscribe \/ Unsubscribe \/ Trigger
    \/ LookupResolves \/ LookupRejects
    \/ CompressResolves \/ CompressRejects

\* The same with the commandsAsync entries and their correlators.
NextAsync ==
    \/ NextBus
    \/ CommandAsync
    \/ RecompressResolves \/ RecompressRejects

SpecNegotiation == Init /\ [][NextNegotiation]_vars

SpecBus == InitBus /\ [][NextBus]_vars

SpecAsync == InitBus /\ [][NextAsync]_vars

----------------------------------------------------------------------------
(* The event bus: properties. *)

InFlight(ev) == \E t \in inflight : t.ev = ev

\* The step is a trigger call; the event it delivers and the slot it finds.
TriggerStep  == Len(triggered') = Len(triggered) + 1
TriggerTopic == triggered'[Len(triggered')].topic
TriggerSlot  == listeners[TriggerTopic]

\* C1: after subscribe(T, h1) then subscribe(T, h2), trigger(T, p) has h2
\* invoked with p exactly once and h1 never: a trigger call that finds a
\* subscribed handler h2 in the slot invokes nothing but h2 with that event
\* and hands the event to nothing but h2, and once the event is no longer in
\* flight h2 has been invoked for it exactly once.
C1_LastSubscribeWins ==
    [][ /\ \A ev \in 1..Len(triggered') :
              triggered'[ev].found = "user" =>
                 triggered'[ev].delivered =
                    IF \E t \in inflight' : t.ev = ev THEN 0 ELSE 1
        /\ (TriggerStep /\ TriggerSlot.handler.kind = "user") =>
              /\ \A i \in 1..Len(called') :
                    /\ called'[i].handler = TriggerSlot.handler
                    /\ called'[i].handler # replaced[TriggerTopic]
                    /\ called'[i].ev = Len(triggered')
              /\ \A t \in inflight' \ inflight :
                    t.handler = TriggerSlot.handler /\ t.ev = Len(triggered')
      ]_vars

\* C2: trigger(T, p) on a topic no handler was ever subscribed to logs an
\* error, invokes no handler and does not throw.
C2_TriggerWithoutSubscribe ==
    [][ (TriggerStep /\ TriggerSlot.handler.kind \in {"default", "none"}) =>
           /\ console' = {"noHandler"}
           /\ called' = << >>
           /\ ret' = Void
      ]_vars

\* C3: after unsubscribe(T) and until the next subscribe(T, _), a trigger on
\* T invokes no handler, logs an error, does not throw and leaves the
\* listener table, the capability table and the session context unchanged.
C3_TriggerAfterUnsubscribe ==
    [][ (TriggerStep /\ TriggerSlot = EmptySlot) =>
           /\ called' = << >>
           /\ triggered'[Len(triggered')].delivered = 0
           /\ console' = {"noHandler"}
           /\ ret' = Void
           /\ UNCHANGED <<listeners, isCommandAvailable, user, inflight>>
      ]_vars

C3_Witness ==
    /\ Len(triggered) > 0
    /\ triggered[Len(triggered)].found = "none"
    /\ listeners[triggered[Len(triggered)].topic] = EmptySlot
    /\ console = {"noHandler"}
    /\ windowMiniKit

\* C4: an event triggered while no handler is registered is dropped for
\* good: it is not kept in flight and no subscribed handler is ever invoked
\* for it.
C4_NoReplay ==
    \A ev \in 1..Len(triggered) :
       triggered[ev].found \in {"none", "default"} =>
          /\ triggered[ev].delivered = 0
          /\ ~InFlight(ev)
          /\ \A i \in 1..Len(called) :
                called[i].ev = ev => called[i].handler.kind = "default"

C4_Witness ==
    \E ev \in 1..Len(triggered) :
       /\ triggered[ev].found = "none"
       /\ listeners[triggered[ev].topic].handler.kind = "user"
       /\ \E later \in (ev + 1)..Len(triggered) :
             /\ triggered[later].topic = triggered[ev].topic
             /\ triggered[later].delivered = 1

----------------------------------------------------------------------------
(* Negotiation: properties. *)

\* The host descriptor has no entry for X / has an entry for X that
\* contains the version the bridge requires / has entries for X, all of
\* them without that version.
Lacks(X) ==
    \A i \in 1..Len(worldApp.supported_commands) :
       worldApp.supported_commands[i].name # X

AdvertisesRequired(X) ==
    \E i \in 1..Len(worldApp.supported_commands) :
       /\ worldApp.supported_commands[i].name = X
       /\ miniKitCommandVersion[X] \in worldApp.supported_commands[i].supported_versions

AdvertisesOnlyOther(X) == ~Lacks(X) /\ ~AdvertisesRequired(X)

\* The step is an install call.
InstallStep == ret'.kind = "install"

\* The step is an install call that passed both checks and sent init.
InstallNegotiates ==
    /\ InstallStep
    /\ ~windowMiniKit
    /\ worldApp.present
    /\ sent' = << InitEnvelope >>

\* Negotiation has run (with the descriptor worldApp still holds).
Negotiated == windowMiniKit /\ initCount > 0

\* C5: when the descriptor lacks a known command X, an install call that
\* passes both checks and sends init leaves X unavailable and answers
\* AppOutOfDate.
C5_MissingCommand ==
    [][ InstallNegotiates =>
           \A X \in Command :
              Lacks(X) => /\ ~isCommandAvailable'[X]
                          /\ ret' = InstallResult("AppOutOfDate")
      ]_vars

C5_Witness ==
    /\ ret = InstallResult("AppOutOfDate")
    /\ sent = << InitEnvelope >>
    /\ \E X \in Command : Lacks(X) /\ ~isCommandAvailable[X]

\* C6: when the descriptor lacks a known command X, every other command Y
\* listed at the required version is available after install, wherever Y
\* stands in the command table, and Y's entry sends its envelope.
C6_OthersStayAvailable ==
    Negotiated =>
       \A X \in Command :
          Lacks(X) =>
             \A Y \in Command \ {X} :
                AdvertisesRequired(Y) =>
                   /\ isCommandAvailable[Y]
                   /\ commandEntry(isCommandAvailable, Y, "in_ok").sent
                         = << Envelope(Y, "in_ok") >>

\* C7: after negotiation X is available only if the host lists X with the
\* required version; a command listed only at other versions is unavailable
\* and its entry returns null without sending.
C7_AvailableOnlyAtRequiredVersion ==
    Negotiated =>
       \A X \in Command :
          /\ isCommandAvailable[X] => AdvertisesRequired(X)
          /\ AdvertisesOnlyOther(X) =>
                \A input \in Inputs :
                   /\ commandEntry(isCommandAvailable, X, input).value = Null
                   /\ commandEntry(isCommandAvailable, X, input).sent = << >>

\* C8: an install call that passes both checks and sends init answers
\* AppOutOfDate exactly when some known command is missing from the
\* descriptor or listed without the required version, and success otherwise.
C8_OutOfDateIff ==
    [][ InstallNegotiates =>
           ret' = IF \E X \in Command : ~AdvertisesRequired(X)
                  THEN InstallResult("AppOutOfDate")
                  ELSE InstallResult("success")
      ]_vars

C8_Witness ==
    /\ ret = InstallResult("AppOutOfDate")
    /\ sent = << InitEnvelope >>
    /\ \E X \in Command : AdvertisesOnlyOther(X)
    /\ \A X \in Command : ~Lacks(X)

\* C9: an install call made while the bridge is registered answers
\* AlreadyInstalled and changes nothing: no init message, and the
\* capability table, the listener table and the session context are as
\* before.
C9_AlreadyInstalled ==
    [][ (InstallStep /\ windowMiniKit) =>
           /\ ret' = InstallResult("AlreadyInstalled")
           /\ sent' = << >>
           /\ UNCHANGED <<isCommandAvailable, listeners, user, initCount,
                          windowMiniKit, appId>>
      ]_vars

C9_Witness ==
    /\ ret = InstallResult("AlreadyInstalled")
    /\ windowMiniKit
    /\ \E X \in Command : isCommandAvailable[X]

\* The outcome of an install call that registers the bridge and negotiates.
ProceedsNormally ==
    /\ windowMiniKit'
    /\ IF sent' = << >>
       THEN ret' = InstallResult("Unknown")
       ELSE /\ sent' = << InitEnvelope >>
            /\ initCount' = initCount + 1
            /\ ret' = IF \A X \in Command : AdvertisesRequired(X)
                      THEN InstallResult("success")
                      ELSE InstallResult("AppOutOfDate")
            /\ (\A X \in Command : AdvertisesRequired(X)) =>
                  \A X \in Command : isCommandAvailable'[X]

C11_InstallNeverThrows ==
    [][ /\ ret'.kind # "threw"
        /\ InstallStep =>
              ret'.value \in {"success", "AlreadyInstalled",
                              "OutsideOfWorldApp", "AppOutOfDate", "Unknown"}
        /\ (~windowMiniKit /\ windowMiniKit' /\ initCount' = initCount) =>
              /\ ret' = InstallResult("Unknown")
              /\ sent' = << >>
      ]_vars

C11_Witness ==
    /\ ret = InstallResult("Unknown")
    /\ windowMiniKit
    /\ initCount = 0
    /\ sent = << >>

----------------------------------------------------------------------------
(* The command entries: properties. *)

\* The step is a call of a command entry; the entry and its input.
CommandStep    == ret'.kind = "command"
CommandCalled  == ret'.command
CommandInput   == ret'.input

\* C12: a command entry called before any install call has run negotiation
\* (every availability flag still at its initial value) returns null and
\* hands nothing to the transport.
C12_BeforeNegotiation ==
    [][ (CommandStep /\ initCount = 0) =>
           /\ \A c \in Command : ~isCommandAvailable[c]
           /\ ret'.value = Null
           /\ sent' = << >>
      ]_vars

C12_Witness ==
    /\ ret.kind = "command"
    /\ ret.value = Null
    /\ initCount = 0
    /\ worldApp.present
    /\ AdvertisesRequired(ret.command)
    /\ sent = << >>

\* C13: a command entry whose own command is not marked available returns
\* null and sends no envelope.
C13_UnavailableReturnsNull ==
    [][ (CommandStep /\ ~isCommandAvailable[CommandCalled]) =>
           /\ ret'.value = Null
           /\ sent' = << >>
      ]_vars

\* C14: a command entry whose guard and input validation pass hands exactly
\* one envelope to the transport, tagged with the entry's own command and
\* the declared version of that command, and returns the payload it put in
\* the envelope.
C14_SendsWhatItReturns ==
    [][ ( /\ CommandStep
          /\ isCommandAvailable[GuardFlag(CommandCalled)]
          /\ Validates(CommandCalled, CommandInput) ) =>
           /\ Len(sent') = 1
           /\ sent'[1].command = CommandCalled
           /\ sent'[1].version = miniKitCommandVersion[CommandCalled]
           /\ ret'.value = sent'[1].payload
      ]_vars

\* C15: pay or walletAuth, available but called with an input that fails
\* validation, returns null, sends no envelope and does not throw.
C15_InvalidInput ==
    [][ ( /\ CommandStep
          /\ CommandCalled \in {"pay", "wallet-auth"}
          /\ isCommandAvailable[CommandCalled]
          /\ CommandInput = "in_bad" ) =>
           /\ ret'.value = Null
           /\ sent' = << >>
      ]_vars

C15_Witness ==
    /\ ret.kind = "command"
    /\ ret.command \in {"pay", "wallet-auth"}
    /\ ret.input = "in_bad"
    /\ isCommandAvailable[ret.command]
    /\ ret.value = Null
    /\ sent = << >>

----------------------------------------------------------------------------
(* The correlators of commandsAsync: properties. *)

\* The step is a commandsAsync call; the number of its awaitCommand call.
AwaitStep == Len(promises') = Len(promises) + 1

\* The trigger call of the step finds the closure of awaitCommand call k,
\* which has not resolved yet.
TriggerFinds(k) ==
    /\ TriggerStep
    /\ TriggerSlot.handler = CorrHandler(k)
    /\ promises[k].inner = "pending"

\* The step ends the response transform job t (profile lookup or proof
\* re-encoding inside the wrapper subscribe installed).
TransformEnds(t) ==
    /\ t \in inflight
    /\ t \notin inflight'
    /\ t.kind \in {"lookup", "compress"}

\* C16: an awaitCommand call whose executor returned null stays subscribed,
\* and the next event triggered on its topic resolves it with commandPayload
\* null and that event as finalPayload: at once, or when the response
\* transform of the event has ended.
C16_NullExecutorResolves ==
    [][ /\ ( AwaitStep /\ promises'[Len(promises')].commandPayload = Null ) =>
              /\ listeners'[promises'[Len(promises')].event].handler
                    = CorrHandler(Len(promises'))
              /\ promises'[Len(promises')].inner = "pending"
        /\ \A k \in 1..Len(promises) :
              ( TriggerFinds(k) /\ promises[k].commandPayload = Null ) =>
                 \/ /\ promises'[k].inner = "resolved"
                    /\ promises'[k].commandPayload = Null
                    /\ promises'[k].finalPayload = Len(triggered')
                 \/ \E t \in inflight' \ inflight :
                       t.ev = Len(triggered') /\ t.handler = CorrHandler(k)
        /\ \A t \in inflight :
              ( /\ TransformEnds(t)
                /\ t.handler.kind = "corr"
                /\ promises[t.handler.id].inner = "pending"
                /\ promises[t.handler.id].commandPayload = Null ) =>
                 /\ promises'[t.handler.id].inner = "resolved"
                 /\ promises'[t.handler.id].commandPayload = Null
                 /\ promises'[t.handler.id].finalPayload = t.ev
      ]_vars

\* C17: the promise of an awaitCommand call settles at most once, and with
\* the first event triggered on its topic after it subscribed.
C17_FirstEventOnly ==
    [][ \A k \in 1..Len(promises) :
           /\ promises'[k].inner = "resolved" =>
                 promises'[k].finalPayload = promises'[k].since + 1
           /\ promises[k].inner = "resolved" =>
                 /\ promises'[k].inner = "resolved"
                 /\ promises'[k].finalPayload = promises[k].finalPayload
      ]_vars

\* C18: two awaitCommand calls k1 then k2 on one topic with no event in
\* between, then a single event on the topic that finds a correlator: once
\* the event is through, k2 (the most recently subscribed) is resolved with
\* it and k1 is still pending.
C18_LastCorrelatorWins ==
    \A k1, k2 \in 1..Len(promises) :
       LET ev == promises[k2].since + 1
       IN ( /\ k1 < k2
            /\ promises[k1].event = promises[k2].event
            /\ promises[k1].since = promises[k2].since
            /\ \A k3 \in (k2 + 1)..Len(promises) : promises[k3].since >= ev
            /\ Len(triggered) = ev
            /\ triggered[ev].found = "corr"
            /\ ~InFlight(ev) ) =>
              /\ promises[k2].inner = "resolved"
              /\ promises[k2].finalPayload = ev
              /\ promises[k1].inner = "pending"

\* C19: a trigger call that finds the closure of a pending awaitCommand call
\* in the slot removes that subscription before it returns, so that the
\* next event on the topic finds no handler.
C19_UnsubscribedInsideTrigger ==
    [][ \A k \in 1..Len(promises) :
           TriggerFinds(k) => listeners'[TriggerTopic] = EmptySlot
      ]_vars

----------------------------------------------------------------------------
(* The response transforms: properties. *)

\* The event is a verification success at the strongest level (Orb).
OrbSuccess(ev) ==
    /\ triggered[ev].topic = "MiniAppVerifyAction"
    /\ triggered[ev].orig.status = "success"
    /\ triggered[ev].orig.verification_level = "orb"

\* C20: a handler passed to subscribe is invoked for an Orb verification
\* success only with the re-encoded proof, and not while the re-encoding
\* of that event is still running.
C20_ProofReencodedFirst ==
    \A i \in 1..Len(called) :
       ( called[i].handler.kind = "user" /\ OrbSuccess(called[i].ev) ) =>
          /\ called[i].payload.proof =
                compressAndPadProof(triggered[called[i].ev].orig.proof)
          /\ called[i].payload.proof # triggered[called[i].ev].orig.proof
          /\ ~InFlight(called[i].ev)

C20_Witness ==
    \E i \in 1..Len(called) :
       /\ called[i].handler.kind = "user"
       /\ OrbSuccess(called[i].ev)
       /\ called[i].payload.proof = 1
       /\ triggered[called[i].ev].delivered = 1

\* C21: a verification success at a lower assurance level and a verification
\* error reach the subscribed handler inside the trigger call, once, with
\* the payload as the host passed it, and no job is left for the event.
C21_LowerLevelSynchronous ==
    [][ ( /\ TriggerStep
          /\ TriggerTopic = "MiniAppVerifyAction"
          /\ TriggerSlot.handler.kind = "user"
          /\ ~( /\ triggered'[Len(triggered')].orig.status = "success"
                /\ triggered'[Len(triggered')].orig.verification_level = "orb" ) ) =>
           /\ called' = << [handler |-> TriggerSlot.handler,
                            ev |-> Len(triggered'),
                            payload |-> triggered'[Len(triggered')].orig] >>
           /\ triggered'[Len(triggered')].delivered = 1
           /\ triggered'[Len(triggered')].cur = triggered'[Len(triggered')].orig
           /\ \A t \in inflight' : t.ev # Len(triggered')
      ]_vars

C21_Witness ==
    /\ Len(called) = 1
    /\ called[1].handler.kind = "user"
    /\ triggered[called[1].ev].topic = "MiniAppVerifyAction"
    /\ triggered[called[1].ev].orig.verification_level = "device"
    /\ called[1].payload = triggered[called[1].ev].orig

\* The event is a successful authentication.
AuthSuccess(ev) ==
    /\ triggered[ev].topic = "MiniAppWalletAuth"
    /\ triggered[ev].orig.status = "success"

\* The step ends the profile lookup job t; the lookup failed / succeeded.
LookupFails(t) ==
    /\ t \in inflight /\ t \notin inflight'
    /\ t.kind = "lookup"
    /\ console' = {"lookupFailed"}

LookupSucceeds(t) ==
    /\ t \in inflight /\ t \notin inflight'
    /\ t.kind = "lookup"
    /\ console' # {"lookupFailed"}

\* C23: a failing profile lookup is caught: nothing is thrown to the caller
\* of trigger or out of the wrapper, and the subscribed handler is invoked
\* with the payload of the event, for the first and only time.
C23_LookupFailureCaught ==
    [][ /\ ( /\ TriggerStep
             /\ TriggerTopic = "MiniAppWalletAuth"
             /\ TriggerSlot.handler.kind = "user" ) => ret' = Void
        /\ \A t \in inflight :
              ( LookupFails(t) /\ t.handler.kind = "user" ) =>
                 /\ ret' = Void
                 /\ triggered[t.ev].delivered = 0
                 /\ triggered'[t.ev].delivered = 1
                 /\ called' = << [handler |-> t.handler, ev |-> t.ev,
                                  payload |-> triggered[t.ev].orig] >>
      ]_vars

C23_Witness ==
    /\ console = {"lookupFailed"}
    /\ Len(called) = 1
    /\ called[1].handler.kind = "user"
    /\ AuthSuccess(called[1].ev)
    /\ triggered[called[1].ev].delivered = 1
    /\ ret = Void

\* C24: the subscribed handler is invoked for a successful authentication
\* inside the trigger call, without waiting for the profile lookup.
C24_AuthDeliveredSynchronously ==
    [][ ( /\ TriggerStep
          /\ TriggerTopic = "MiniAppWalletAuth"
          /\ TriggerSlot.handler.kind = "user"
          /\ triggered'[Len(triggered')].orig.status = "success" ) =>
           /\ triggered'[Len(triggered')].delivered = 1
           /\ \E i \in 1..Len(called') :
                 /\ called'[i].handler = TriggerSlot.handler
                 /\ called'[i].ev = Len(triggered')
      ]_vars

\* C25: when the profile lookup for a successful authentication with
\* address A succeeds, the session context holds wallet address A and the
\* profile of A; and it holds wallet address A from the trigger call on.
C25_ProfileMerged ==
    [][ /\ ( /\ TriggerStep
             /\ TriggerTopic = "MiniAppWalletAuth"
             /\ TriggerSlot.handler.kind \in {"user", "corr"}
             /\ triggered'[Len(triggered')].orig.status = "success" ) =>
              user'.walletAddress = triggered'[Len(triggered')].orig.address
        /\ \A t \in inflight :
              LookupSucceeds(t) =>
                 LET A == triggered[t.ev].orig.address
                 IN /\ user'.walletAddress = A
                    /\ user'.username = "name_" \o A
                    /\ user'.profilePictureUrl = "pic_" \o A
      ]_vars

C25_Witness ==
    /\ Len(called) = 1
    /\ called[1].handler.kind = "user"
    /\ AuthSuccess(called[1].ev)
    /\ console = {}
    /\ user.walletAddress = "B"
    /\ user.username = "name_B"
    /\ user.profilePictureUrl = "pic_B"

\* C26: an Orb verification success that found a subscribed handler has
\* been delivered to it once its re-encoding job is over, whether the
\* re-encoding succeeded or failed.
C26_DeliveredDespiteFailure ==
    \A ev \in 1..Len(triggered) :
       ( OrbSuccess(ev) /\ triggered[ev].found = "user" /\ ~InFlight(ev) ) =>
          triggered[ev].delivered >= 1

\* One subscribe call was made on the topic and its handler is still there.
OneHandlerThroughout(topic) ==
    /\ replaced[topic] = DefaultHandler
    /\ listeners[topic].handler.kind = "user"

\* C27: with one handler registered throughout, of two events on the topic
\* the later one is not delivered while the earlier one is still waiting
\* for its transform.
C27_NoReordering ==
    \A e1, e2 \in 1..Len(triggered) :
       ( /\ e1 < e2
         /\ triggered[e1].topic = triggered[e2].topic
         /\ OneHandlerThroughout(triggered[e1].topic)
         /\ triggered[e1].found = "user"
         /\ triggered[e2].found = "user"
         /\ triggered[e2].delivered >= 1 ) =>
            ~InFlight(e1)

\* C30: the session context holds the result of the lookup that completed
\* last: in a state a successful lookup has just led to (the handler was
\* just invoked for a successful authentication, nothing was logged), the
\* wallet address and the profile are those of that event.
C30_LastLookupWins ==
    ( /\ Len(called) = 1
      /\ called[1].handler.kind = "user"
      /\ AuthSuccess(called[1].ev)
      /\ console = {} ) =>
         LET A == triggered[called[1].ev].orig.address
         IN /\ user.walletAddress = A
            /\ user.username = getUserProfile(A).username
            /\ user.profilePictureUrl = getUserProfile(A).profile_picture_url

\* The interleaving of C30: A then B authenticated, the lookup for A is the
\* last to complete, the context ends with A.
C30_Witness ==
    /\ Len(triggered) = 2
    /\ AuthSuccess(1) /\ AuthSuccess(2)
    /\ triggered[1].orig.address = "A"
    /\ triggered[2].orig.address = "B"
    /\ triggered[1].delivered = 1 /\ triggered[2].delivered = 1
    /\ inflight = {}
    /\ Len(called) = 1
    /\ called[1].handler.kind = "user"
    /\ called[1].ev = 1
    /\ console = {}
    /\ user.walletAddress = "A"
    /\ user.username = "name_A"

----------------------------------------------------------------------------
(* The capability table over time. *)

\* C28: capability negotiation runs at most once, the table changes in no
\* other step than that one, and no flag goes from true back to false.
C28_PopulatedOnce ==
    [][ /\ initCount' <= 1
        /\ \A c \in Command : isCommandAvailable[c] => isCommandAvailable'[c]
        /\ isCommandAvailable' # isCommandAvailable =>
              /\ InstallNegotiates
              /\ initCount = 0
              /\ initCount' = 1
      ]_vars

C28_Witness ==
    /\ initCount = 1
    /\ ret = InstallResult("AlreadyInstalled")
    /\ \E c \in Command : isCommandAvailable[c]
    /\ \E c \in Command : ~isCommandAvailable[c]

----------------------------------------------------------------------------
(* The proof re-encoding seen through commandsAsync.verify. *)

\* C22: the caller sees an Orb verification success exactly once and with
\* its proof re-encoded exactly once: a handler passed to subscribe when the
\* job of the event is over, the caller of commandsAsync.verify when its
\* promise resolves.
C22_ReencodedExactlyOnce ==
    /\ \A ev \in 1..Len(triggered) :
          ( OrbSuccess(ev) /\ triggered[ev].found = "user"
            /\ triggered[ev].delivered >= 1 ) =>
             /\ triggered[ev].delivered = 1
             /\ triggered[ev].cur.proof =
                   compressAndPadProof(triggered[ev].orig.proof)
    /\ \A k \in 1..Len(promises) :
          ( /\ promises[k].command = "verify"
            /\ promises[k].outer = "resolved"
            /\ OrbSuccess(promises[k].finalPayload) ) =>
             triggered[promises[k].finalPayload].cur.proof =
                compressAndPadProof(triggered[promises[k].finalPayload].orig.proof)

\* The step ends the re-encoding job t with a failure: the job is gone and
\* the proof is what it was.
ReencodingFails(t) ==
    /\ t \in inflight /\ t \notin inflight'
    /\ t.kind \in {"compress", "recompress"}
    /\ triggered'[t.ev].cur.proof = triggered[t.ev].cur.proof

\* C29: when a re-encoding of the Orb success response of a pending
\* commandsAsync.verify call fails, the promise of the call is rejected.
C29_FailureRejects ==
    [][ \A t \in inflight :
           ( /\ ReencodingFails(t)
             /\ t.handler.kind = "corr"
             /\ promises[t.handler.id].outer = "pending" ) =>
              promises'[t.handler.id].outer = "rejected"
      ]_vars

----------------------------------------------------------------------------
(* install and isInstalled: further properties. *)

\* C31: an install call that gets past the test for the host context
\* (success, AppOutOfDate or Unknown) leaves the device, app version and
\* analytics fields of the session context equal to what the host reports;
\* one that answers AlreadyInstalled or OutsideOfWorldApp leaves them as
\* they were.
C31_UserProperties ==
    [][ InstallStep =>
           IF ret'.value \in {"success", "AppOutOfDate", "Unknown"}
           THEN /\ user'.deviceOS = worldApp.device_os
                /\ user'.worldAppVersion = worldApp.world_app_version
                /\ user'.optedIntoOptionalAnalytics = worldApp.is_optional_analytics
           ELSE /\ ret'.value \in {"AlreadyInstalled", "OutsideOfWorldApp"}
                /\ user' = user
      ]_vars

C31_Witness ==
    /\ ret = InstallResult("AppOutOfDate")
    /\ user.deviceOS = worldApp.device_os
    /\ user.worldAppVersion = worldApp.world_app_version
    /\ user.optedIntoOptionalAnalytics = worldApp.is_optional_analytics
    /\ user.deviceOS = "android"

\* C35: no command envelope is handed to the transport before the init
\* message was sent, and a flag becomes true only in an install call that
\* sent init.
C35_InitBeforeCommands ==
    [][ /\ ( CommandStep /\ sent' # << >> ) => initCount > 0
        /\ \A c \in Command :
              ( ~isCommandAvailable[c] /\ isCommandAvailable'[c] ) =>
                 /\ InstallStep
                 /\ sent' = << InitEnvelope >>
      ]_vars

C35_Witness ==
    /\ ret.kind = "command"
    /\ Len(sent) = 1
    /\ sent[1].command = ret.command
    /\ initCount = 1

\* The bridge registered itself but the init send threw.
RegisteredWithoutInit == windowMiniKit /\ initCount = 0

\* C36: after an install call answered Unknown the bridge stays registered
\* without init: later install calls answer AlreadyInstalled, negotiation
\* does not run, every flag stays false and every command entry returns
\* null and sends nothing.
C36_StuckAfterUnknown ==
    [][ /\ ret' = InstallResult("Unknown") => RegisteredWithoutInit'
        /\ RegisteredWithoutInit =>
              /\ RegisteredWithoutInit'
              /\ \A c \in Command : ~isCommandAvailable'[c]
              /\ InstallStep => /\ ret' = InstallResult("AlreadyInstalled")
                                /\ sent' = << >>
              /\ CommandStep => /\ ret'.value = Null
                                /\ sent' = << >>
      ]_vars

C36_Witness ==
    /\ RegisteredWithoutInit
    /\ ret.kind = "command"
    /\ ret.value = Null
    /\ worldApp.present
    /\ \A X \in Command : AdvertisesRequired(X)

\* C37: the init message is sent at most once: a step that hands an init
\* envelope to the transport is the first to do so.
C37_InitAtMostOnce ==
    [][ ( \E i \in 1..Len(sent') : sent'[i].command = "init" ) =>
           /\ initCount = 0
           /\ initCount' = 1
           /\ sent' = << InitEnvelope >>
      ]_vars

C37_Witness ==
    /\ initCount = 1
    /\ wasOutside
    /\ ret = InstallResult("AlreadyInstalled")
    /\ sent = << >>

\* The place of a command in the bridge's table, and the place of the first
\* command the host does not advertise at the required version (one past
\* the table when there is none).
IndexOf(X) == CHOOSE i \in 1..Len(CommandTable) : CommandTable[i] = X

FirstFailing ==
    LET failing == { i \in 1..Len(CommandTable) :
                       ~AdvertisesRequired(CommandTable[i]) }
    IN IF failing = {} THEN Len(CommandTable) + 1
       ELSE CHOOSE i \in failing : \A j \in failing : i <= j

\* C38: after negotiation a command is available exactly when the host
\* lists it (at any version) and it comes no later in the table than the
\* first failing command.
C38_StopsAtFirstFailure ==
    [][ InstallNegotiates =>
           \A X \in Command :
              isCommandAvailable'[X] <=>
                 ( ~Lacks(X) /\ IndexOf(X) <= FirstFailing )
      ]_vars

C38_Witness ==
    /\ Negotiated
    /\ ret = InstallResult("AppOutOfDate")
    /\ FirstFailing < Len(CommandTable)
    /\ AdvertisesOnlyOther(CommandTable[FirstFailing])
    /\ isCommandAvailable[CommandTable[FirstFailing]]
    /\ AdvertisesRequired(CommandTable[Len(CommandTable)])
    /\ ~isCommandAvailable[CommandTable[Len(CommandTable)]]

\* The step is an isInstalled call.
IsInstalledStep == ret'.kind = "isInstalled"

----------------------------------------------------------------------------
(* Correlators and the listener table: further properties. *)

\* C32: an awaitCommand call leaves its closure registered in the step in
\* which its executor hands the envelope to the transport, the
\* commandPayload it keeps is what the executor returned (the payload sent,
\* or null when nothing was sent), and that is the commandPayload of the
\* result whenever it resolves.
C32_CommandPayloadCaptured ==
    [][ /\ AwaitStep =>
              LET k == Len(promises')
              IN /\ listeners'[promises'[k].event].handler = CorrHandler(k)
                 /\ promises'[k].inner = "pending"
                 /\ IF sent' = << >>
                    THEN promises'[k].commandPayload = Null
                    ELSE /\ sent'[1].command = promises'[k].command
                         /\ promises'[k].commandPayload = sent'[1].payload
        /\ \A k \in 1..Len(promises) :
              promises'[k].commandPayload = promises[k].commandPayload
      ]_vars

C32_Witness ==
    \E k \in 1..Len(promises) :
       /\ promises[k].inner = "resolved"
       /\ promises[k].commandPayload # Null
       /\ promises[k].finalPayload = promises[k].since + 1

\* C33: when the closure of an awaitCommand call is invoked at the end of a
\* response transform while another handler holds the slot of its topic,
\* that other handler is still registered afterwards.
C33_RemovesOnlyItself ==
    [][ \A t \in inflight :
           ( /\ TransformEnds(t)
             /\ t.handler.kind = "corr"
             /\ triggered'[t.ev].delivered > triggered[t.ev].delivered
             /\ listeners[triggered[t.ev].topic] # EmptySlot
             /\ listeners[triggered[t.ev].topic].handler # t.handler ) =>
              listeners'[triggered[t.ev].topic] = listeners[triggered[t.ev].topic]
      ]_vars

\* C34: a handler passed to subscribe is invoked only while it is the one
\* registered on the topic: not after unsubscribe, not after it was
\* replaced.
C34_RemovedHandlerSilent ==
    [][ \A i \in 1..Len(called') :
           called'[i].handler.kind = "user" =>
              listeners[triggered'[called'[i].ev].topic].handler
                 = called'[i].handler
      ]_vars

\* C39: an awaitCommand call takes the slot of its topic whatever was
\* there; when its correlation resolves the slot is empty (the displaced
\* handler is not put back), and an event that finds the slot empty is
\* logged and dropped.
C39_DisplacesAndLeavesEmpty ==
    [][ /\ AwaitStep =>
              /\ listeners'[promises'[Len(promises')].event].handler
                    = CorrHandler(Len(promises'))
              /\ replaced'[promises'[Len(promises')].event]
                    = listeners[promises'[Len(promises')].event].handler
        /\ \A k \in 1..Len(promises) :
              ( promises[k].inner = "pending" /\ promises'[k].inner = "resolved" ) =>
                 listeners'[promises[k].event] = EmptySlot
        /\ ( TriggerStep /\ TriggerSlot = EmptySlot ) =>
              /\ console' = {"noHandler"}
              /\ called' = << >>
              /\ listeners' = listeners
      ]_vars

C39_Witness ==
    /\ Len(promises) = 1
    /\ promises[1].commandPayload = Null
    /\ promises[1].inner = "resolved"
    /\ replaced[promises[1].event].kind = "user"
    /\ listeners[promises[1].event] = EmptySlot
    /\ Len(triggered) = 2
    /\ triggered[2].found = "none"
    /\ console = {"noHandler"}

============================================================================
